---- MODULE Spec2Model ----
(***************************************************************************)
(* fastdivide: division of u64 dividends by a divisor fixed at run time.   *)
(* DividerU64::divide_by preprocesses the divisor into one of three        *)
(* variants; DividerU64::divide applies it to a dividend.                  *)
(*                                                                         *)
(* TLC integers are 32 bits wide, so the program's u64 and u128 values are *)
(* modelled as natural numbers of unbounded size, written as little-endian *)
(* sequences of limbs in base 2^15 without high zero limbs (zero is << >>). *)
(* The width of each Rust type is applied explicitly where the code casts, *)
(* shifts, adds or subtracts.                                              *)
(***************************************************************************)
EXTENDS Integers, Sequences, FiniteSets, TLC

(***************************************************************************)
(* Natural numbers of unbounded size (the values of u64 and u128).         *)
(***************************************************************************)
LimbBits == 15

Base == 2 ^ LimbBits

\* F(v) with v evaluated first, as a let of the program evaluates its right
\* side before the statements that follow it
Bind(v, F(_)) == CHOOSE y \in { F(x) : x \in { v } } : TRUE

\* s without its high zero limbs
Norm(s) ==
    LET len == CHOOSE m \in 0..Len(s) :
                   /\ m = 0 \/ s[m] # 0
                   /\ \A k \in (m + 1)..Len(s) : s[k] = 0
    IN  IF len = Len(s) THEN s ELSE SubSeq(s, 1, len)

RECURSIVE FromInt(_)
FromInt(k) == IF k = 0 THEN << >> ELSE << k % Base >> \o FromInt(k \div Base)

Zero == << >>

One == << 1 >>

Limb(a, i) == IF i <= Len(a) THEN a[i] ELSE 0

MaxOf(x, y) == IF x >= y THEN x ELSE y

\* a + b + c for c in {0, 1}; the carry into limb i is found by looking back
\* for the nearest limb that generates one, across limbs that propagate it
AddC(a, b, c) ==
    LET n == MaxOf(Len(a), Len(b))
        s == [i \in 1..n |-> Limb(a, i) + Limb(b, i)]
        carry(i) == \/ \E j \in 1..(i - 1) :
                          /\ s[j] >= Base
                          /\ \A k \in (j + 1)..(i - 1) : s[k] = Base - 1
                    \/ c = 1 /\ \A k \in 1..(i - 1) : s[k] = Base - 1
    IN  Norm([i \in 1..(n + 1) |->
                 IF i <= n THEN (s[i] + (IF carry(i) THEN 1 ELSE 0)) % Base
                 ELSE (IF carry(i) THEN 1 ELSE 0)])

Add(a, b) == AddC(a, b, 0)

Less(a, b) ==
    IF Len(a) # Len(b) THEN Len(a) < Len(b)
    ELSE \E i \in 1..Len(a) :
             /\ a[i] < b[i]
             /\ \A k \in (i + 1)..Len(a) : a[k] = b[k]

Leq(a, b) == ~Less(b, a)

\* a - b for a >= b; the borrow into limb i is found like the carry of AddC
Sub(a, b) ==
    LET t == [i \in 1..Len(a) |-> a[i] - Limb(b, i)]
        borrow(i) == \E j \in 1..(i - 1) :
                         /\ t[j] < 0
                         /\ \A k \in (j + 1)..(i - 1) : t[k] = 0
    IN  Norm([i \in 1..Len(a) |->
                 (t[i] - (IF borrow(i) THEN 1 ELSE 0) + Base) % Base])

\* a * k for 0 <= k <= Base: the low and the high halves of the limb products
MulSmall(a, k) ==
    Add([i \in 1..Len(a) |-> (a[i] * k) % Base],
        [i \in 1..(Len(a) + 1) |-> IF i = 1 THEN 0 ELSE (a[i - 1] * k) \div Base])

\* a * Base^j
ShiftLimbs(a, j) == IF Len(a) = 0 THEN a ELSE [i \in 1..j |-> 0] \o a

\* a times the limbs lo..hi of b, each at its place
RECURSIVE MulRange(_, _, _, _)
MulRange(a, b, lo, hi) ==
    IF lo > hi THEN Zero
    ELSE IF lo = hi THEN ShiftLimbs(MulSmall(a, b[lo]), lo - 1)
    ELSE Bind(MulRange(a, b, lo, (lo + hi) \div 2), LAMBDA low :
         Bind(MulRange(a, b, ((lo + hi) \div 2) + 1, hi), LAMBDA high :
             Add(low, high)))

Mul(a, b) == MulRange(a, b, 1, Len(b))

\* a * 2^k
Shl(a, k) == ShiftLimbs(MulSmall(a, 2 ^ (k % LimbBits)), k \div LimbBits)

\* floor(a / 2^k)
Shr(a, k) ==
    LET j == k \div LimbBits
        r == 2 ^ (k % LimbBits)
    IN  IF j >= Len(a) THEN Zero
        ELSE Norm([i \in 1..(Len(a) - j) |->
                     (a[i + j] \div r) + (Limb(a, i + j + 1) % r) * (Base \div r)])

\* a mod 2^w
LowBits(a, w) ==
    LET j == w \div LimbBits
        r == 2 ^ (w % LimbBits)
    IN  IF Len(a) <= j THEN a
        ELSE Norm([i \in 1..(j + 1) |-> IF i <= j THEN a[i] ELSE a[i] % r])

RECURSIVE IntBitLen(_)
IntBitLen(k) == IF k = 0 THEN 0 ELSE 1 + IntBitLen(k \div 2)

\* number of significant bits of a
BitLen(a) ==
    IF Len(a) = 0 THEN 0 ELSE LimbBits * (Len(a) - 1) + IntBitLen(a[Len(a)])

Pow2(k) == Shl(One, k)

\* x AND y, three bits at a time
RECURSIVE IntAnd(_, _)
IntAnd(x, y) ==
    IF x = 0 \/ y = 0 THEN 0
    ELSE (x % 2) * (y % 2)
         + 2 * ((x \div 2) % 2) * ((y \div 2) % 2)
         + 4 * ((x \div 4) % 2) * ((y \div 4) % 2)
         + 8 * IntAnd(x \div 8, y \div 8)

BitAnd(a, b) ==
    LET n == IF Len(a) <= Len(b) THEN Len(a) ELSE Len(b)
    IN  Norm([i \in 1..n |-> IntAnd(a[i], b[i])])

\* one limb of long division (Knuth, algorithm D): << quotient limb, remainder >>
\* of r * Base + limb by b, for r < b and the high limb of b at least Base / 2.
\* The quotient of the two high limbs by the high limb of b is the quotient
\* limb or exceeds it by at most 2: the first of the three whose product with
\* b does not exceed the dividend is the quotient limb.
DivModLimb(r, limb, b) ==
    Bind(Norm(<< limb >> \o r), LAMBDA r2 :
    Bind((Limb(r2, Len(b) + 1) * Base + Limb(r2, Len(b))) \div b[Len(b)],
         LAMBDA estimate :
    Bind(IF estimate < Base THEN estimate ELSE Base - 1, LAMBDA qhat :
    Bind(MulSmall(b, qhat), LAMBDA product :
        IF Leq(product, r2) THEN << qhat, Sub(r2, product) >>
        ELSE Bind(Sub(product, b), LAMBDA product1 :
            IF Leq(product1, r2) THEN << qhat - 1, Sub(r2, product1) >>
            ELSE << qhat - 2, Sub(r2, Sub(product1, b)) >>)))))

\* long division of a by b from limb i down: << quotient limbs, remainder >>,
\* given st, the same of the limbs above i (its remainder is less than b)
RECURSIVE DivModFrom(_, _, _, _)
DivModFrom(a, b, i, st) ==
    IF i = 0 \/ ~Less(st[2], b) THEN st
    ELSE DivModFrom(a, b, i - 1,
                    Bind(DivModLimb(st[2], a[i], b),
                         LAMBDA step : << << step[1] >> \o st[1], step[2] >>))

\* << a / b, a % b >> for b > 0, with both shifted left until the high limb
\* of b is at least Base / 2
DivMod(a, b) ==
    Bind(LimbBits - IntBitLen(b[Len(b)]), LAMBDA shift :
    Bind(Shl(a, shift), LAMBDA a2 :
    Bind(Shl(b, shift), LAMBDA b2 :
    Bind(DivModFrom(a2, b2, Len(a2), << << >>, Zero >>), LAMBDA qr :
         << Norm(qr[1]), Shr(qr[2], shift) >>))))

\* truncating division a / b and a % b, for b > 0
Div(a, b) == DivMod(a, b)[1]

Mod(a, b) == DivMod(a, b)[2]

E9 == FromInt(1000000000)

\* the number written in decimal as the digits of a, then the nine digits of b,
\* then the nine digits of c
Dec(a, b, c) ==
    Add(Mul(Add(Mul(FromInt(a), E9), FromInt(b)), E9), FromInt(c))

\* the value of a number below 2^31 as an integer
RECURSIVE ToIntFrom(_, _)
ToIntFrom(a, i) == IF i > Len(a) THEN 0 ELSE a[i] + Base * ToIntFrom(a, i + 1)

ToInt(a) == ToIntFrom(a, 1)

(***************************************************************************)
(* The state: one caller, who constructs a divider with divide_by and then *)
(* calls divide on it any number of times, or runs the histogram loop of   *)
(* the crate documentation.                                                *)
(***************************************************************************)
VARIABLES
    pc,               \* "start", "constructed", "histogram", "done", "panicked"
    overflow_checks,  \* the build: TRUE panics on integer overflow, FALSE wraps
    divisor,          \* the argument of divide_by
    built,            \* what divide_by did: its return value, panic and locals
    self,             \* the DividerU64 the caller holds
    call,             \* the last call of divide: its argument, result and locals
    hist              \* the histogram loop: vals, min, position and output

vars == << pc, overflow_checks, divisor, built, self, call, hist >>

(***************************************************************************)
(* Widths of the integer types and the panics of the program.              *)
(***************************************************************************)
U64Bits == 64

U128Bits == 128

U64Max == Sub(Pow2(U64Bits), One)

NoPanic == "none"

InvalidDivisor == "assertion failed: divisor > 0u64"

ReminderAssertion == "assertion failed: reminder > 0 && reminder < divisor"

PowerOf2Assertion == "assertion failed: !is_power_of_2(divisor)"

ArithmeticOverflow == "attempt to compute with overflow"

\* a - b in an unsigned type of w bits, wrapped on underflow
WrapSub(a, b, w) == IF Less(a, b) THEN Sub(Add(a, Pow2(w)), b) ELSE Sub(a, b)

\* a - b in u64, wrapped on underflow
wrapping_sub(a, b) == WrapSub(a, b, U64Bits)

\* a + b in u64, wrapped on overflow
wrapping_add(a, b) == LowBits(Add(a, b), U64Bits)

\* leading_zeros counted in a 63 bit word
leading_zeros_of_63(n) == U64Bits - 1 - BitLen(n)

\* u64::leading_zeros
leading_zeros(n) == U64Bits - BitLen(n)

(***************************************************************************)
(* enum DividerU64                                                         *)
(***************************************************************************)
None == [tag |-> "None"]

BitShift(d) == [tag |-> "BitShift", shift |-> d]

Fast(magic, shift) == [tag |-> "Fast", magic |-> magic, shift |-> shift]

General(magic_low, shift) ==
    [tag |-> "General", magic_low |-> magic_low, shift |-> shift]

\* the product shifted by one bit too few
mullhi_shift_63(x, y) == LowBits(Shr(Mul(x, y), 63), U64Bits)

\* the low half of the product in place of the high half
mullhi_low_half(x, y) == LowBits(Mul(x, y), U64Bits)

libdivide_mullhi_u64(x, y) == LowBits(Shr(Mul(x, y), 64), U64Bits)

\* n & (n + 1) == 0
is_power_of_2_plus(n) == BitAnd(n, wrapping_add(n, One)) = Zero

is_power_of_2(n) == BitAnd(n, wrapping_sub(n, One)) = Zero

\* what a function did: its return value or its panic, and its locals
Returned(value, locals) == [ret |-> value, panic |-> NoPanic, locals |-> locals]

Panicked(message, locals) == [ret |-> None, panic |-> message, locals |-> locals]

NoLocals == [fn |-> "none"]

power_of_2_division(divisor_) ==
    LET floor_log_2_d == 63 - leading_zeros(divisor_)
    IN  IF is_power_of_2(divisor_)
        THEN Returned(BitShift(floor_log_2_d), [fn |-> "power_of_2_division"])
        ELSE Returned(None, [fn |-> "power_of_2_division"])

\* fast_path giving up only when e >= 2^(floor_log_2_d + 1)
fast_path_wide_bound(divisor_) ==
    IF is_power_of_2(divisor_) THEN Returned(None, [fn |-> "fast_path"])
    ELSE
    Bind(63 - leading_zeros(divisor_), LAMBDA floor_log_2_d :
    Bind(floor_log_2_d + 64, LAMBDA u_shift :
    Bind(LowBits(Shl(One, u_shift % U128Bits), U128Bits), LAMBDA u :
    Bind(Div(u, divisor_), LAMBDA proposed_magic_number :
    Bind(LowBits(Sub(u, Mul(proposed_magic_number, divisor_)), U64Bits),
         LAMBDA reminder :
    Bind(wrapping_sub(divisor_, reminder), LAMBDA e :
    Bind(Add(LowBits(proposed_magic_number, U64Bits), One), LAMBDA magic :
    Bind([fn |-> "fast_path", floor_log_2_d |-> floor_log_2_d,
          u_shift |-> u_shift,
          proposed_magic_number |-> proposed_magic_number,
          reminder |-> reminder, e |-> e, magic |-> magic], LAMBDA locals :
        IF overflow_checks /\ u_shift >= U128Bits
        THEN Panicked(ArithmeticOverflow, locals)
        ELSE IF ~(Less(Zero, reminder) /\ Less(reminder, divisor_))
        THEN Panicked(ReminderAssertion, locals)
        ELSE IF Leq(Pow2(floor_log_2_d + 1), e)
        THEN Returned(None, locals)
        ELSE IF overflow_checks /\ Less(U64Max, magic)
        THEN Panicked(ArithmeticOverflow, locals)
        ELSE Returned(Fast(LowBits(magic, U64Bits), floor_log_2_d), locals)
    ))))))))

fast_path(divisor_) ==
    IF is_power_of_2(divisor_) THEN Returned(None, [fn |-> "fast_path"])
    ELSE
    Bind(63 - leading_zeros(divisor_), LAMBDA floor_log_2_d :
    Bind(floor_log_2_d + 64, LAMBDA u_shift :
    Bind(LowBits(Shl(One, u_shift % U128Bits), U128Bits), LAMBDA u :
    Bind(Div(u, divisor_), LAMBDA proposed_magic_number :
    Bind(LowBits(Sub(u, Mul(proposed_magic_number, divisor_)), U64Bits),
         LAMBDA reminder :
    Bind(wrapping_sub(divisor_, reminder), LAMBDA e :
    Bind(Add(LowBits(proposed_magic_number, U64Bits), One), LAMBDA magic :
    Bind([fn |-> "fast_path", floor_log_2_d |-> floor_log_2_d,
          u_shift |-> u_shift,
          proposed_magic_number |-> proposed_magic_number,
          reminder |-> reminder, e |-> e, magic |-> magic], LAMBDA locals :
        IF overflow_checks /\ u_shift >= U128Bits
        THEN Panicked(ArithmeticOverflow, locals)
        ELSE IF ~(Less(Zero, reminder) /\ Less(reminder, divisor_))
        THEN Panicked(ReminderAssertion, locals)
        ELSE IF Leq(Pow2(floor_log_2_d), e)
        THEN Returned(None, locals)
        ELSE IF overflow_checks /\ Less(U64Max, magic)
        THEN Panicked(ArithmeticOverflow, locals)
        ELSE Returned(Fast(LowBits(magic, U64Bits), floor_log_2_d), locals)
    ))))))))

\* general_path computing 1 + (1 << (64 + p)) / d directly
general_path_direct(divisor_) ==
    IF is_power_of_2(divisor_)
    THEN Panicked(PowerOf2Assertion, [fn |-> "general_path"])
    ELSE
    Bind(64 - leading_zeros(divisor_), LAMBDA p :
    Bind(64 + p, LAMBDA e_shift :
    Bind(LowBits(Shl(One, e_shift % U128Bits), U128Bits), LAMBDA e :
    Bind(Div(e, divisor_), LAMBDA quotient :
    Bind(Add(One, quotient), LAMBDA m :
    Bind([fn |-> "general_path", p |-> p, e_shift |-> e_shift,
          e |-> e, sum |-> e, m |-> m], LAMBDA locals :
        IF overflow_checks /\ (e_shift >= U128Bits \/ Leq(Pow2(U128Bits), m))
        THEN Panicked(ArithmeticOverflow, locals)
        ELSE Returned(General(LowBits(m, U64Bits), p - 1), locals)
    ))))))

\* general_path adding 1 where the code adds 2
general_path_plus_one(divisor_) ==
    IF is_power_of_2(divisor_)
    THEN Panicked(PowerOf2Assertion, [fn |-> "general_path"])
    ELSE
    Bind(64 - leading_zeros(divisor_), LAMBDA p :
    Bind(63 + p, LAMBDA e_shift :
    Bind(LowBits(Shl(One, e_shift % U128Bits), U128Bits), LAMBDA e :
    Bind(WrapSub(e, divisor_, U128Bits), LAMBDA diff :
    Bind(Add(e, diff), LAMBDA sum :
    Bind(Div(LowBits(sum, U128Bits), divisor_), LAMBDA quotient :
    Bind(Add(One, quotient), LAMBDA m :
    Bind([fn |-> "general_path", p |-> p, e_shift |-> e_shift,
          e |-> e, sum |-> sum, m |-> m], LAMBDA locals :
        IF overflow_checks /\ (e_shift >= U128Bits \/ Less(e, divisor_))
        THEN Panicked(ArithmeticOverflow, locals)
        ELSE IF overflow_checks
                /\ (Leq(Pow2(U128Bits), sum) \/ Leq(Pow2(U128Bits), m))
        THEN Panicked(ArithmeticOverflow, locals)
        ELSE Returned(General(LowBits(m, U64Bits), p - 1), locals)
    ))))))))

general_path(divisor_) ==
    IF is_power_of_2(divisor_)
    THEN Panicked(PowerOf2Assertion, [fn |-> "general_path"])
    ELSE
    Bind(64 - leading_zeros(divisor_), LAMBDA p :
    Bind(63 + p, LAMBDA e_shift :
    Bind(LowBits(Shl(One, e_shift % U128Bits), U128Bits), LAMBDA e :
    Bind(WrapSub(e, divisor_, U128Bits), LAMBDA diff :
    Bind(Add(e, diff), LAMBDA sum :
    Bind(Div(LowBits(sum, U128Bits), divisor_), LAMBDA quotient :
    Bind(Add(FromInt(2), quotient), LAMBDA m :
    Bind([fn |-> "general_path", p |-> p, e_shift |-> e_shift,
          e |-> e, sum |-> sum, m |-> m], LAMBDA locals :
        IF overflow_checks /\ (e_shift >= U128Bits \/ Less(e, divisor_))
        THEN Panicked(ArithmeticOverflow, locals)
        ELSE IF overflow_checks
                /\ (Leq(Pow2(U128Bits), sum) \/ Leq(Pow2(U128Bits), m))
        THEN Panicked(ArithmeticOverflow, locals)
        ELSE Returned(General(LowBits(m, U64Bits), p - 1), locals)
    ))))))))

\* what divide_by did: the functions it entered, in order, with their locals
Built(outcome, steps, fast, general) ==
    [ret |-> outcome.ret, panic |-> outcome.panic, steps |-> steps,
     fast |-> fast, general |-> general]

\* divide_by without its assertion
divide_by_unasserted(divisor_) ==
    Bind(power_of_2_division(divisor_), LAMBDA pow2 :
        IF pow2.ret # None
        THEN Built(pow2, << "power_of_2_division" >>, NoLocals, NoLocals)
        ELSE
        Bind(fast_path(divisor_), LAMBDA fast :
            IF fast.panic # NoPanic \/ fast.ret # None
            THEN Built(fast, << "power_of_2_division", "fast_path" >>,
                       fast.locals, NoLocals)
            ELSE
            Bind(general_path(divisor_), LAMBDA general :
                Built(general,
                      << "power_of_2_division", "fast_path", "general_path" >>,
                      fast.locals, general.locals))))

divide_by(divisor_) ==
    IF ~Less(Zero, divisor_)
    THEN Built(Panicked(InvalidDivisor, NoLocals), << >>, NoLocals, NoLocals)
    ELSE
    Bind(power_of_2_division(divisor_), LAMBDA pow2 :
        IF pow2.ret # None
        THEN Built(pow2, << "power_of_2_division" >>, NoLocals, NoLocals)
        ELSE
        Bind(fast_path(divisor_), LAMBDA fast :
            IF fast.panic # NoPanic \/ fast.ret # None
            THEN Built(fast, << "power_of_2_division", "fast_path" >>,
                       fast.locals, NoLocals)
            ELSE
            Bind(general_path(divisor_), LAMBDA general :
                Built(general,
                      << "power_of_2_division", "fast_path", "general_path" >>,
                      fast.locals, general.locals))))

\* n >> shift in u64: a shift by 64 or more overflows
ShrU64(n, shift) == Shr(n, shift % U64Bits)

\* what divide did: its result or panic, and whether anything wrapped
Divided(n, ret, wrapped, locals) ==
    [n |-> n, ret |-> ret, wrapped |-> wrapped, locals |-> locals,
     panic |-> IF overflow_checks /\ locals.checked_overflow
               THEN ArithmeticOverflow ELSE NoPanic]

\* divide whose General arm averages as (n + q) >> 1
divide_naive_average(self_, n) ==
    IF self_.tag = "BitShift"
    THEN Divided(n, ShrU64(n, self_.shift), self_.shift >= U64Bits,
                 [arm |-> "BitShift", checked_overflow |-> self_.shift >= U64Bits])
    ELSE IF self_.tag = "Fast"
    THEN Divided(n, ShrU64(libdivide_mullhi_u64(self_.magic, n), self_.shift),
                 self_.shift >= U64Bits,
                 [arm |-> "Fast", checked_overflow |-> self_.shift >= U64Bits])
    ELSE
    Bind(libdivide_mullhi_u64(self_.magic_low, n), LAMBDA q :
    Bind(wrapping_sub(n, q), LAMBDA diff :
    Bind(Add(n, q), LAMBDA sum :
    Bind(Shr(wrapping_add(n, q), 1), LAMBDA t :
        Divided(n, ShrU64(t, self_.shift),
                Less(U64Max, sum) \/ self_.shift >= U64Bits,
                [arm |-> "General", q |-> q, diff |-> diff, t |-> t,
                 checked_overflow |-> Less(U64Max, sum) \/ self_.shift >= U64Bits])))))

divide(self_, n) ==
    IF self_.tag = "BitShift"
    THEN Divided(n, ShrU64(n, self_.shift), self_.shift >= U64Bits,
                 [arm |-> "BitShift", checked_overflow |-> self_.shift >= U64Bits])
    ELSE IF self_.tag = "Fast"
    THEN Divided(n, ShrU64(libdivide_mullhi_u64(self_.magic, n), self_.shift),
                 self_.shift >= U64Bits,
                 [arm |-> "Fast", checked_overflow |-> self_.shift >= U64Bits])
    ELSE
    Bind(libdivide_mullhi_u64(self_.magic_low, n), LAMBDA q :
    Bind(wrapping_sub(n, q), LAMBDA diff :
    Bind(Add(Shr(diff, 1), q), LAMBDA sum :
    Bind(wrapping_add(Shr(diff, 1), q), LAMBDA t :
        Divided(n, ShrU64(t, self_.shift),
                Less(n, q) \/ Less(U64Max, sum) \/ self_.shift >= U64Bits,
                [arm |-> "General", q |-> q, diff |-> diff, t |-> t,
                 checked_overflow |-> Less(n, q) \/ self_.shift >= U64Bits])))))

(***************************************************************************)
(* The histogram function of the crate documentation, one loop iteration   *)
(* per step.                                                               *)
(***************************************************************************)
NoHistogram == [vals |-> << >>, min |-> Zero, interval |-> Zero, i |-> 0,
                output |-> << >>]

\* the loop body skipping val <= min
histogram_body_strict(divide_, val, min, output) ==
    IF Leq(val, min) THEN [output |-> output, called |-> FALSE]
    ELSE Bind(divide(divide_, Sub(val, min)), LAMBDA c :
             [output |-> IF c.panic = NoPanic /\ Less(c.ret, FromInt(Len(output)))
                         THEN [output EXCEPT ![ToInt(c.ret) + 1] = @ + 1]
                         ELSE output,
              called |-> TRUE, call |-> c])

\* the loop body for val: the output array after it, and the call it made
histogram_body(divide_, val, min, output) ==
    IF Less(val, min) THEN [output |-> output, called |-> FALSE]
    ELSE Bind(divide(divide_, Sub(val, min)), LAMBDA c :
             [output |-> IF c.panic = NoPanic /\ Less(c.ret, FromInt(Len(output)))
                         THEN [output EXCEPT ![ToInt(c.ret) + 1] = @ + 1]
                         ELSE output,
              called |-> TRUE, call |-> c])

(***************************************************************************)
(* The inputs the caller draws from.                                       *)
(***************************************************************************)
MaxSmallDivisor == 12

MaxSmallDividend == 2

MaxTopOffset == 3

MaxHistLen == 1

MaxHistMin == 1

MaxHistInterval == 3

\* exponents k whose 2^k - 1, 2^k and 2^k + 1 are tried as divisors
Exponents == {8, 32, 33, 62, 63, 64}

D234234131223 == Dec(0, 234, 234131223)

\* the two prime factors of 2^64 + 1
D274177 == FromInt(274177)

D67280421310721 == Dec(0, 67280, 421310721)

Divisors ==
    { FromInt(k) : k \in 0..MaxSmallDivisor }
    \cup { d \in UNION { { Sub(Pow2(k), One), Pow2(k), Add(Pow2(k), One) } :
                         k \in Exponents } : Leq(d, U64Max) }
    \cup { Sub(U64Max, FromInt(j)) : j \in 0..MaxTopOffset }
    \cup { FromInt(100), FromInt(112), FromInt(2048),
           D234234131223, D274177, D67280421310721 }

\* the largest dividend of the form k * d - 1, for d > 0
LastBeforeMultiple(d) ==
    Bind(Div(Pow2(U64Bits), d), LAMBDA k :
    Bind(Mul(k, d), LAMBDA multiple : Sub(multiple, One)))

Dividends(d) ==
    { n \in { FromInt(k) : k \in 0..MaxSmallDividend }
            \cup { Sub(U64Max, FromInt(j)) : j \in 0..MaxTopOffset }
            \cup { D234234131223, Pow2(43), Pow2(44) }
            \cup (IF d = Zero THEN { }
                  ELSE { Sub(d, One), d, Add(d, One), LastBeforeMultiple(d) }) :
        Leq(n, U64Max) }

HistValues == { FromInt(0), FromInt(1), FromInt(4), FromInt(36) }

DocVals == << FromInt(0), FromInt(1), FromInt(4), FromInt(36), FromInt(2), FromInt(1) >>

HistVals ==
    { DocVals } \cup UNION { [1..len -> HistValues] : len \in 0..MaxHistLen }

DocOutputLen == 3

(***************************************************************************)
(* The caller's steps.                                                     *)
(***************************************************************************)
NoCall == [n |-> Zero, ret |-> Zero, wrapped |-> FALSE, panic |-> NoPanic,
           locals |-> [arm |-> "none", checked_overflow |-> FALSE]]

NoBuilt == Built(Returned(None, NoLocals), << >>, NoLocals, NoLocals)

Init ==
    /\ pc = "start"
    /\ overflow_checks \in BOOLEAN
    /\ divisor = Zero
    /\ built = NoBuilt
    /\ self = None
    /\ call = NoCall
    /\ hist = NoHistogram

\* let divider = DividerU64::divide_by(d)
DivideBy(d) ==
    /\ pc = "start"
    /\ LET b == divide_by(d)
       IN  /\ built' = b
           /\ self' = b.ret
           /\ pc' = IF b.panic = NoPanic THEN "constructed" ELSE "panicked"
    /\ divisor' = d
    /\ UNCHANGED << overflow_checks, call, hist >>

\* divider.divide(n)
Divide(n) ==
    /\ pc = "constructed"
    /\ LET c == divide(self, n)
       IN  /\ call' = c
           /\ pc' = IF c.panic = NoPanic THEN "constructed" ELSE "panicked"
    /\ UNCHANGED << overflow_checks, divisor, built, self, hist >>

\* histogram(vals, min, interval, output) up to the loop
HistogramStart(vals, min, interval) ==
    /\ pc = "start"
    /\ LET b == divide_by(interval)
       IN  /\ built' = b
           /\ self' = b.ret
           /\ pc' = IF b.panic = NoPanic THEN "histogram" ELSE "panicked"
    /\ divisor' = interval
    /\ hist' = [vals |-> vals, min |-> min, interval |-> interval, i |-> 1,
                output |-> [k \in 1..DocOutputLen |-> 0]]
    /\ UNCHANGED << overflow_checks, call >>

\* one iteration of for &val in vals
HistogramStep ==
    /\ pc = "histogram"
    /\ hist.i <= Len(hist.vals)
    /\ LET body == histogram_body(self, hist.vals[hist.i], hist.min, hist.output)
       IN  /\ hist' = [hist EXCEPT !.i = @ + 1, !.output = body.output]
           /\ call' = IF body.called THEN body.call ELSE call
           /\ pc' = IF body.called /\ body.call.panic # NoPanic
                    THEN "panicked" ELSE "histogram"
    /\ UNCHANGED << overflow_checks, divisor, built, self >>

\* the loop is over and histogram returns
HistogramReturn ==
    /\ pc = "histogram"
    /\ hist.i > Len(hist.vals)
    /\ pc' = "done"
    /\ UNCHANGED << overflow_checks, divisor, built, self, call, hist >>

Next ==
    \/ \E d \in Divisors : DivideBy(d)
    \/ \E n \in Dividends(divisor) : Divide(n)
    \/ \E vals \in HistVals, min \in 0..MaxHistMin, interval \in 0..MaxHistInterval :
          HistogramStart(vals, FromInt(min), FromInt(interval))
    \/ HistogramStep
    \/ HistogramReturn

Spec == Init /\ [][Next]_vars

(***************************************************************************)
(* A caller that writes the General variant itself: the fields of the enum *)
(* are public, so any magic_low and any shift can reach divide.            *)
(***************************************************************************)
MaxLiteralShift == 2

Magic7 == Dec(2, 635249153, 387078803)

MagicLows ==
    { Zero, One, FromInt(2), Magic7, Sub(Pow2(63), One), Pow2(63),
      Sub(U64Max, One), U64Max }

Shifts == (0..MaxLiteralShift) \cup {31, 62, 63}

\* let divider = DividerU64::General { magic_low, shift }
Literal(magic_low, shift) ==
    /\ pc = "start"
    /\ self' = General(magic_low, shift)
    /\ pc' = "constructed"
    /\ UNCHANGED << overflow_checks, divisor, built, call, hist >>

NextGeneral ==
    \/ \E magic_low \in MagicLows, shift \in Shifts : Literal(magic_low, shift)
    \/ \E n \in Dividends(divisor) : Divide(n)

SpecGeneral == Init /\ [][NextGeneral]_vars

(***************************************************************************)
(* Properties.                                                             *)
(***************************************************************************)
\* the shift of divisor_: the position of its highest set bit
FloorLog2(divisor_) == BitLen(divisor_) - 1

\* the distance from 2^(64 + L) up to the next multiple of divisor_
ErrorTerm(divisor_) ==
    Sub(divisor_, Mod(Pow2(U64Bits + FloorLog2(divisor_)), divisor_))

\* the 64-bit multiplier floor(2^(64 + L) / divisor_) + 1
FastMagic(divisor_) ==
    Add(Div(Pow2(U64Bits + FloorLog2(divisor_)), divisor_), One)

\* a divider was returned by divide_by
Selected == built.steps # << >> /\ built.panic = NoPanic

\* C1: every call of divide on a divider that divide_by built for d returns
\* floor(n / d) and does not panic, whichever variant was selected.
DivideIsQuotient ==
    call.locals.arm # "none" =>
        /\ call.panic = NoPanic
        /\ call.ret = Div(call.n, divisor)

DivideIsQuotientWitness ==
    /\ call.locals.arm = "General"
    /\ divisor = FromInt(7)
    /\ call.n = U64Max
    /\ call.ret = Dec(2, 635249153, 387078802)

\* C2: divide_by(0) fails with the divisor assertion before any path is
\* entered; no divider comes out of it, so no divide call ever runs on a zero
\* divisor, and the assertion fails for no other divisor.
ZeroRejectedAtConstruction ==
    /\ (pc # "start" /\ built.steps = << >> /\ self = None) =>
          /\ pc = "panicked"
          /\ divisor = Zero
          /\ built.panic = InvalidDivisor
          /\ built.fast = NoLocals /\ built.general = NoLocals
          /\ call = NoCall
    /\ (pc # "start" /\ divisor = Zero) => (built.steps = << >> /\ self = None)
    /\ built.panic = InvalidDivisor => divisor = Zero
    /\ call.panic # InvalidDivisor

ZeroRejectedWitness ==
    /\ pc = "panicked"
    /\ divisor = Zero
    /\ built.panic = InvalidDivisor
    /\ hist = NoHistogram

\* C3: divide_by returns BitShift(log2 d) for a power of two; otherwise Fast
\* with magic floor(2^(64+L)/d) + 1 and shift L when d - (2^(64+L) mod d) is
\* below 2^L; otherwise General.  divide_by(4) is BitShift(2), divide_by(11)
\* is Fast with magic 13415813871788764812 and shift 3, divide_by(7) is General.
SelectionRule ==
    Selected =>
        /\ IF divisor = Pow2(FloorLog2(divisor))
           THEN self = BitShift(FloorLog2(divisor))
           ELSE IF Less(ErrorTerm(divisor), Pow2(FloorLog2(divisor)))
           THEN self = Fast(FastMagic(divisor), FloorLog2(divisor))
           ELSE self.tag = "General"
        /\ divisor = FromInt(4) => self = BitShift(2)
        /\ divisor = FromInt(11) => self = Fast(Dec(13, 415813871, 788764812), 3)
        /\ divisor = FromInt(7) => self.tag = "General"

SelectionRuleWitness ==
    /\ pc = "constructed"
    /\ divisor = FromInt(11)
    /\ self = Fast(Dec(13, 415813871, 788764812), 3)

\* C4: for every divisor of at least 1 divide_by returns a divider in both
\* builds: the reminder assertion and the power-of-two assertion hold, every
\* shift of a u128 is by less than 128, e - d and e + (e - d) stay within
\* u128 (also for p = 64), and the Fast magic is below 2^64.
ConstructionCompletes ==
    (pc # "start" /\ divisor # Zero) =>
        /\ built.panic = NoPanic
        /\ self # None
        /\ built.fast.fn = "fast_path" =>
              /\ built.fast.u_shift < U128Bits
              /\ Less(Zero, built.fast.reminder)
              /\ Less(built.fast.reminder, divisor)
              /\ self.tag = "Fast" =>
                    /\ Less(built.fast.proposed_magic_number, Pow2(U64Bits))
                    /\ Less(built.fast.magic, Pow2(U64Bits))
                    /\ self.magic = built.fast.magic
        /\ built.general.fn = "general_path" =>
              /\ ~is_power_of_2(divisor)
              /\ built.general.e_shift < U128Bits
              /\ Leq(divisor, built.general.e)
              /\ Less(built.general.sum, Pow2(U128Bits))
              /\ Less(built.general.m, Pow2(U128Bits))

ConstructionCompletesWitness ==
    /\ pc = "constructed"
    /\ overflow_checks
    /\ divisor = Sub(U64Max, One)
    /\ built.general.fn = "general_path"
    /\ built.general.p = 64
    /\ self.tag = "General"

\* C5: no call of divide overflows or underflows, in either build: in the
\* General arm q <= n, so n - q does not underflow, and ((n - q) >> 1) + q is
\* at most n, so the wrapping addition never wraps and gives the exact sum.
DivideNeverOverflows ==
    call.locals.arm # "none" =>
        /\ call.panic = NoPanic
        /\ ~call.wrapped
        /\ call.locals.arm = "General" =>
              /\ Leq(call.locals.q, call.n)
              /\ call.locals.diff = Sub(call.n, call.locals.q)
              /\ call.locals.t = Add(Shr(call.locals.diff, 1), call.locals.q)
              /\ Leq(call.locals.t, call.n)

DivideNeverOverflowsWitness ==
    /\ overflow_checks
    /\ pc = "constructed"
    /\ call.locals.arm = "General"
    /\ divisor = Sub(U64Max, One)
    /\ call.n = U64Max
    /\ call.locals.q = FromInt(2)

\* C6: the shift of every divider divide_by returns is in 0..63: it is
\* floor(log2 d) for BitShift and Fast, and p - 1 for General, where
\* p = 64 - leading_zeros(d) is between 2 and 64.
ShiftInRange ==
    Selected =>
        /\ self.shift \in 0..(U64Bits - 1)
        /\ self.tag \in {"BitShift", "Fast"} => self.shift = FloorLog2(divisor)
        /\ self.tag = "General" =>
              /\ built.general.p = BitLen(divisor)
              /\ built.general.p \in 2..U64Bits
              /\ self.shift = built.general.p - 1

ShiftInRangeWitness ==
    /\ pc = "constructed"
    /\ divisor = Sub(U64Max, One)
    /\ self.tag = "General"
    /\ self.shift = 63

\* the output of the documented histogram, with the hardware division
HistogramReference(vals, min, interval, len) ==
    [k \in 1..len |->
        Cardinality({ i \in 1..Len(vals) :
                        /\ Leq(min, vals[i])
                        /\ Div(Sub(vals[i], min), interval) = FromInt(k - 1) })]

\* C7: a divider is not changed by the calls made on it: after any sequence
\* of divide calls it is the value divide_by returned and the last call has
\* returned floor(n / d); the histogram of the documentation counts what the
\* hardware division counts, [3, 1, 0] for its example.
ReuseKeepsDivider ==
    /\ Selected => self = built.ret
    /\ (Selected /\ call.locals.arm # "none") =>
          /\ built = divide_by(divisor)
          /\ call = divide(built.ret, call.n)
          /\ call.ret = Div(call.n, divisor)
    /\ pc = "done" =>
          hist.output = HistogramReference(hist.vals, hist.min, hist.interval,
                                           DocOutputLen)
    /\ (pc = "done" /\ hist.vals = DocVals /\ hist.min = One
            /\ hist.interval = FromInt(3)) => hist.output = << 3, 1, 0 >>

ReuseKeepsDividerWitness ==
    /\ pc = "done"
    /\ hist.vals = DocVals
    /\ hist.min = One
    /\ hist.interval = FromInt(3)
    /\ hist.output = << 3, 1, 0 >>
    /\ self = divide_by(FromInt(3)).ret

\* C8: the multiplier m computed by general_path is ceil(2^(64 + p) / d), it
\* lies strictly between 2^64 and 2^65, and the stored magic_low is m - 2^64.
GeneralMultiplier ==
    (Selected /\ built.general.fn = "general_path") =>
        /\ built.general.m =
              Div(Add(Pow2(U64Bits + built.general.p), Sub(divisor, One)), divisor)
        /\ Less(Pow2(U64Bits), built.general.m)
        /\ Less(built.general.m, Pow2(U64Bits + 1))
        /\ self.tag = "General"
        /\ built.general.m = Add(Pow2(U64Bits), self.magic_low)

GeneralMultiplierWitness ==
    /\ pc = "constructed"
    /\ divisor = FromInt(7)
    /\ self = General(Magic7, 2)
    /\ built.general.m = Add(Pow2(U64Bits), Magic7)

\* C9: for every magic_low and n of 64 bits and every shift in 0..63 the
\* General arm of divide returns floor(n * (2^64 + magic_low) / 2^(65 + shift)),
\* and none of its intermediate values needs more than 64 bits.
GeneralArmIsWideProduct ==
    call.locals.arm = "General" =>
        /\ call.panic = NoPanic
        /\ ~call.wrapped
        /\ call.ret = Shr(Mul(call.n, Add(Pow2(U64Bits), self.magic_low)),
                          U64Bits + 1 + self.shift)
        /\ Leq(call.locals.q, U64Max)
        /\ Leq(call.locals.diff, U64Max)
        /\ Leq(call.locals.t, U64Max)

GeneralArmIsWideProductWitness ==
    /\ pc = "constructed"
    /\ built = NoBuilt
    /\ self = General(U64Max, 0)
    /\ call.locals.arm = "General"
    /\ call.n = U64Max
    /\ call.ret = Sub(U64Max, One)

\* what the Fast form with the 64-bit multiplier of divisor_ returns for n
FastCandidate(divisor_, n) ==
    divide(Fast(LowBits(FastMagic(divisor_), U64Bits), FloorLog2(divisor_)), n).ret

\* the Fast form of divisor_ is exact on all of Dividends(divisor_).  The
\* candidate returns floor(n / d) exactly when r * 2^(64+L) + n * e is below
\* d * 2^(64+L), for r = n mod d and e = ErrorTerm(d); the left side grows
\* with n and with r, so over all n below 2^64 it is largest at
\* LastBeforeMultiple(d) or at 2^64 - 1, and both are in Dividends(d).
FastCandidateExact(divisor_) ==
    \A n \in Dividends(divisor_) : FastCandidate(divisor_, n) = Div(n, divisor_)

\* C10 as stated: General is returned only for divisors that require the
\* 65-bit multiplier, that is, only when the Fast form with the 64-bit
\* multiplier returns a wrong quotient for some n; conversely every Fast
\* divider is exact without the correction step.
GeneralOnlyWhenRequired ==
    (Selected /\ call = NoCall) =>
        /\ self.tag = "General" => ~FastCandidateExact(divisor)
        /\ self.tag = "Fast" => FastCandidateExact(divisor)

\* C10: General is returned exactly for the divisors, not powers of two,
\* whose error term d - (2^(64+L) mod d) is at least 2^L, and Fast exactly for
\* those whose error term is below 2^L; every Fast divider is exact without
\* the correction step.  The test is sufficient for the 64-bit multiplier but
\* not necessary: 274177 and 67280421310721 get General although the 64-bit
\* multiplier divides every n by them exactly, while for 7 it does not.
GeneralWhenBoundFails ==
    (Selected /\ call = NoCall) =>
        /\ self.tag = "General" <=>
              /\ ~is_power_of_2(divisor)
              /\ Leq(Pow2(FloorLog2(divisor)), ErrorTerm(divisor))
        /\ self.tag = "Fast" <=>
              /\ ~is_power_of_2(divisor)
              /\ Less(ErrorTerm(divisor), Pow2(FloorLog2(divisor)))
        /\ self.tag = "Fast" =>
              /\ self = Fast(LowBits(FastMagic(divisor), U64Bits), FloorLog2(divisor))
              /\ FastCandidateExact(divisor)
        /\ divisor \in {D274177, D67280421310721} =>
              /\ self.tag = "General"
              /\ ErrorTerm(divisor) = Pow2(FloorLog2(divisor))
              /\ FastCandidateExact(divisor)
        /\ divisor = FromInt(7) =>
              /\ self.tag = "General"
              /\ ~FastCandidateExact(divisor)

GeneralWhenBoundFailsWitness ==
    /\ pc = "constructed"
    /\ call = NoCall
    /\ divisor = D274177
    /\ self.tag = "General"
    /\ FastCandidateExact(divisor)

====
